---- MODULE Spec2Model ----
(***************************************************************************)
(* Model of the portfolio backend in main.py: the liveness endpoints, the   *)
(* database diagnostic (GET /test) and the guestbook (GET and POST          *)
(* /guestbook) on top of the storage collaborator create_document /         *)
(* get_documents.                                                           *)
(*                                                                          *)
(* Text is a sequence of one-character strings.  A document is a record     *)
(* whose DOMAIN is the set of keys of the Python dict, so that a missing    *)
(* key is a missing field.  Timestamps are natural numbers; clock is the    *)
(* time the collaborator last stamped a document with.  request, calls,     *)
(* ret and response describe the request handled last: what came in, the    *)
(* calls made into the collaborator, what the handler returned and what     *)
(* went out.  posted collects what the successful POSTs answered.           *)
(***************************************************************************)
EXTENDS Integers, Sequences, FiniteSets, TLC

VARIABLES store, clock, request, calls, ret, response, posted

vars == <<store, clock, request, calls, ret, response, posted>>

(***************************************************************************)
(* Bounds of the model.                                                     *)
(***************************************************************************)
MaxEntries == 2
MaxCollections == 11
MaxChunks == 3

(***************************************************************************)
(* Program constants.                                                       *)
(***************************************************************************)
NAME_MAX_LENGTH == 80
MESSAGE_MAX_LENGTH == 500
DEFAULT_LIMIT == 50
COLLECTIONS_SHOWN == 10
DATETIME_MIN == 0

(***************************************************************************)
(* Text.                                                                    *)
(***************************************************************************)
Rep(c, n) == [i \in 1..n |-> c]

\* the characters str.strip() removes and \s matches
WS == {" ", "\t", "\n"}

\* the pattern compiled without re.IGNORECASE
Lower_CaseSensitive(c) == c

\* re.IGNORECASE, on the letters the pattern holds
Lower(c) ==
    CASE c = "H" -> "h"
      [] c = "T" -> "t"
      [] c = "P" -> "p"
      [] c = "S" -> "s"
      [] OTHER -> c

LowerAt(s, i) == IF i >= 1 /\ i <= Len(s) THEN Lower(s[i]) ELSE ""

LiteralAt(s, i, lit) == \A k \in 1..Len(lit) : LowerAt(s, i + k - 1) = lit[k]

\* str.lstrip() in the place of str.strip()
strip_LeadingOnly(s) ==
    LET keep == {i \in 1..Len(s) : s[i] \notin WS}
    IN  IF keep = {} THEN <<>>
        ELSE SubSeq(s, CHOOSE i \in keep : \A j \in keep : i <= j, Len(s))

\* str.strip(): drop leading and trailing whitespace
strip(s) ==
    LET keep == {i \in 1..Len(s) : s[i] \notin WS}
    IN  IF keep = {} THEN <<>>
        ELSE LET lo == CHOOSE i \in keep : \A j \in keep : i <= j
                 hi == CHOOSE i \in keep : \A j \in keep : i >= j
             IN  SubSeq(s, lo, hi)

\* "https?://" at position i: the length of the scheme matched there, or 0
SchemeLen(s, i) ==
    IF LiteralAt(s, i, <<"h", "t", "t", "p", "s", ":", "/", "/">>) THEN 8
    ELSE IF LiteralAt(s, i, <<"h", "t", "t", "p", ":", "/", "/">>) THEN 7
    ELSE 0

\* "[^\s]+" is greedy: the last index of the run of non-whitespace from j
RunEnd(s, j) ==
    CHOOSE e \in j..Len(s) :
        /\ \A k \in j..e : s[k] \notin WS
        /\ e = Len(s) \/ s[e + 1] \in WS

\* URL_REGEX matched at position i: the index of the match's last character, or 0
MatchEnd(s, i) ==
    LET k == SchemeLen(s, i)
    IN  IF k > 0 /\ i + k <= Len(s) /\ s[i + k] \notin WS
        THEN RunEnd(s, i + k)
        ELSE 0

RECURSIVE SubFrom(_, _, _)
SubFrom(repl, s, i) ==
    IF i > Len(s) THEN <<>>
    ELSE IF MatchEnd(s, i) > 0
         THEN repl \o SubFrom(repl, s, MatchEnd(s, i) + 1)
         ELSE <<s[i]>> \o SubFrom(repl, s, i + 1)

\* URL_REGEX.sub(repl, s): leftmost, non-overlapping matches replaced
URL_REGEX_sub(repl, s) == SubFrom(repl, s, 1)

LINK_REMOVED ==
    <<"[", "l", "i", "n", "k", " ", "r", "e", "m", "o", "v", "e", "d", "]">>

(***************************************************************************)
(* The storage collaborator (module database): documents of the collection  *)
(* "guestbook", in insertion order.                                         *)
(***************************************************************************)
\* the identifier the collaborator gives the next inserted document
NextId(docs) == Len(docs) + 1

\* create_document(collection_name, data): the collection after the insert;
\* the record gets the identifier and the timestamp the collaborator assigns
create_document(docs, call, now) ==
    IF call.collection = "guestbook"
    THEN Append(docs, [_id |-> NextId(docs), name |-> call.data.name,
                       message |-> call.data.message, created_at |-> now])
    ELSE docs

\* get_documents(collection_name, filter, limit): the possible results, records
\* of the collection up to limit, in whatever order the collaborator yields them
get_documents(docs, call) ==
    LET found == IF call.collection = "guestbook" THEN docs ELSE <<>>
        n == IF call.limit < Len(found) THEN call.limit ELSE Len(found)
        picks == {q \in [1..n -> 1..Len(found)] :
                     \A i, j \in 1..n : q[i] = q[j] => i = j}
    IN  {[i \in 1..n |-> found[q[i]]] : q \in picks}

\* one call into the collaborator, with how it ended
Returned(call, value) == [call |-> call, outcome |-> "returned", value |-> value]

Raised(call, e) == [call |-> call, outcome |-> "raised", value |-> e]

\* what the collaborator raises when the database cannot be reached
StorageErrors ==
    { [type |-> "Exception", msg |-> <<"d", "o", "w", "n">>],
      [type |-> "Exception", msg |-> <<"t", "i", "m", "e", "d", " ", "o", "u", "t">>] }

(***************************************************************************)
(* Python and framework helpers.                                            *)
(***************************************************************************)
Digit(n) == <<"0", "1", "2", "3", "4", "5", "6", "7", "8", "9">>[n + 1]

RECURSIVE Decimal(_)
Decimal(n) == IF n < 10 THEN <<Digit(n)>> ELSE Decimal(n \div 10) \o <<Digit(n % 10)>>

\* str(x) of an identifier
str_id(x) == Decimal(x)

\* a fixed text in the place of str(e)
str_exc_Generic(e) == <<"e", "r", "r", "o", "r">>

\* str(e) of an exception
str_exc(e) == e.msg

HTTPException(status_code, detail) ==
    [status |-> status_code, kind |-> "error", body |-> <<>>, detail |-> detail]

NoReturn == [kind |-> "none"]

\* class GuestbookCreate: the request body passes the schema
GuestbookCreate(pname, pmessage) ==
    Len(pname) <= NAME_MAX_LENGTH /\ Len(pmessage) <= MESSAGE_MAX_LENGTH

\* class GuestbookEntry: the fields of the response model.  "_id" starts with
\* an underscore, which pydantic does not take as a field of the model.
GuestbookEntryFields == {"name", "message", "created_at"}

\* the response model applied to one returned dict: its fields alone are kept
GuestbookEntry(d) == [k \in GuestbookEntryFields |-> d[k]]

GuestbookEntryValid(d) == GuestbookEntryFields \subseteq DOMAIN d

\* response_model=GuestbookEntry on what add_guestbook returned
EntryResponse(d) ==
    IF GuestbookEntryValid(d)
    THEN [status |-> 200, kind |-> "entry", body |-> GuestbookEntry(d), detail |-> ""]
    ELSE HTTPException(500, "Internal Server Error")

\* response_model=List[GuestbookEntry] on what list_guestbook returned
ListResponse(ds) ==
    IF \A i \in 1..Len(ds) : GuestbookEntryValid(ds[i])
    THEN [status |-> 200, kind |-> "list",
          body |-> [i \in 1..Len(ds) |-> GuestbookEntry(ds[i])], detail |-> ""]
    ELSE HTTPException(500, "Internal Server Error")

(***************************************************************************)
(* Inputs.                                                                  *)
(***************************************************************************)
EXAMPLE_MESSAGE ==
    <<"c", "h", "e", "c", "k", " ", "t", "h", "i", "s", " ", "o", "u", "t", " ",
      "h", "t", "t", "p", "s", ":", "/", "/", "e", "v", "i", "l", ".", "e", "x",
      "a", "m", "p", "l", "e", "/", "x", " ", "a", "n", "d", " ",
      "h", "t", "t", "p", ":", "/", "/", "y", ".", "c", "o", "m">>

\* request bodies of the service run: blank, padded, plain and with links
Names == { <<" ", " ", " ">>, <<" ", "A", "l", "\t">>, <<"B", "o">> }

Messages ==
    { <<" ", "\n">>, <<" ", "h", "i", " ", "!", "\n">>,
      <<"a", " ", "h", "t", "t", "p", ":", "/", "/", "b", ".", "c", " ",
        "H", "T", "T", "P", "S", ":", "/", "/", "d">> }

Limits == 1..(MaxEntries + 1)

\* documents present before the process starts: none, or one that was
\* written without a timestamp
InitialStores ==
    { <<>>,
      << [_id |-> 1, name |-> <<"o", "l", "d">>, message |-> <<"h", "i">>] >> }

Init ==
    /\ store \in InitialStores
    /\ clock = 1
    /\ request = [method |-> "NONE", path |-> ""]
    /\ calls = <<>>
    /\ ret = NoReturn
    /\ response = [status |-> 0, kind |-> "none", body |-> <<>>, detail |-> ""]
    /\ posted = {}

(***************************************************************************)
(* GET / and GET /api/hello                                                 *)
(***************************************************************************)
MessageResponse(text) ==
    [status |-> 200, kind |-> "message", body |-> [message |-> text], detail |-> ""]

read_root ==
    /\ request' = [method |-> "GET", path |-> "/"]
    /\ calls' = <<>>
    /\ ret' = [kind |-> "dict"]
    /\ response' = MessageResponse("Ayan Portfolio Backend Running")
    /\ UNCHANGED <<store, clock, posted>>

hello ==
    /\ request' = [method |-> "GET", path |-> "/api/hello"]
    /\ calls' = <<>>
    /\ ret' = [kind |-> "dict"]
    /\ response' = MessageResponse("Hello from the backend API!")
    /\ UNCHANGED <<store, clock, posted>>

(***************************************************************************)
(* GET /guestbook                                                           *)
(***************************************************************************)
\* lambda d: d.get("created_at", datetime.min)
SortKey(d) == IF "created_at" \in DOMAIN d THEN d.created_at ELSE DATETIME_MIN

\* the sort left out
SortDescending_Unsorted(ds) == ds

\* docs.sort(key=..., reverse=True): stable, descending
RECURSIVE SortDescending(_)
SortDescending(ds) ==
    IF Len(ds) = 0 THEN <<>>
    ELSE LET front == SortDescending(SubSeq(ds, 1, Len(ds) - 1))
             d == ds[Len(ds)]
             k == Cardinality({i \in 1..Len(front) : SortKey(front[i]) >= SortKey(d)})
         IN  SubSeq(front, 1, k) \o <<d>> \o SubSeq(front, k + 1, Len(front))

\* for d in docs: if "_id" in d: d["_id"] = str(d["_id"])
ConvertIds(ds) ==
    [i \in 1..Len(ds) |->
        IF "_id" \in DOMAIN ds[i] THEN [ds[i] EXCEPT !._id = str_id(@)] ELSE ds[i]]

\* the default passed in the place of the query parameter
GetDocumentsCall_IgnoresLimit(limit) ==
    [fn |-> "get_documents", collection |-> "guestbook", filter |-> {},
     limit |-> DEFAULT_LIMIT]

\* the arguments list_guestbook passes to get_documents
GetDocumentsCall(limit) ==
    [fn |-> "get_documents", collection |-> "guestbook", filter |-> {}, limit |-> limit]

\* the value list_guestbook returns for what get_documents gave
ListResult(docs) == ConvertIds(SortDescending(docs))

list_guestbook(limit) ==
    LET call == GetDocumentsCall(limit)
    IN  /\ \/ \E e \in StorageErrors :
                /\ calls' = <<Raised(call, e)>>
                /\ ret' = NoReturn
                /\ response' = HTTPException(500, str_exc(e))
           \/ \E docs \in get_documents(store, call) :
                /\ calls' = <<Returned(call, docs)>>
                /\ ret' = [kind |-> "list", docs |-> ListResult(docs)]
                /\ response' = ListResponse(ret'.docs)
        /\ UNCHANGED <<store, clock, posted>>

\* GET /guestbook, with the query parameter limit or without it
get_guestbook(has_limit, limit) ==
    /\ request' = [method |-> "GET", path |-> "/guestbook",
                   has_limit |-> has_limit, limit |-> limit]
    /\ list_guestbook(IF has_limit THEN limit ELSE DEFAULT_LIMIT)

(***************************************************************************)
(* POST /guestbook                                                          *)
(***************************************************************************)
\* URL_REGEX.sub("[link removed]", message)
Sanitize(message) == URL_REGEX_sub(LINK_REMOVED, message)

\* data = {"name": name, "message": message_sanitized}
GuestbookData(name, message_sanitized) ==
    [name |-> name, message |-> message_sanitized]

\* the record written to another collection than the one listed
CreateDocumentCall_OtherCollection(data) ==
    [fn |-> "create_document", collection |-> "guestbooks", data |-> data]

\* the arguments add_guestbook passes to create_document
CreateDocumentCall(data) ==
    [fn |-> "create_document", collection |-> "guestbook", data |-> data]

\* the returned dict without the mirrored timestamp
AddResult_NoTimestamp(inserted_id, name, message_sanitized, now) ==
    [_id |-> inserted_id, name |-> name, message |-> message_sanitized]

\* the dict add_guestbook returns
AddResult(inserted_id, name, message_sanitized, now) ==
    [_id |-> inserted_id, name |-> name, message |-> message_sanitized,
     created_at |-> now]

\* only the name tested
Rejected_NameOnly(name, message) == name = <<>>

\* if not name or not message
Rejected(name, message) == name = <<>> \/ message = <<>>

add_guestbook(pname, pmessage) ==
    LET name == strip(pname)
        message == strip(pmessage)
    IN  IF Rejected(name, message)
        THEN /\ calls' = <<>>
             /\ ret' = NoReturn
             /\ response' = HTTPException(400, "Name and message are required")
             /\ UNCHANGED <<store, clock, posted>>
        ELSE LET message_sanitized == Sanitize(message)
                 call == CreateDocumentCall(GuestbookData(name, message_sanitized))
             IN  \/ \E e \in StorageErrors :
                       /\ calls' = <<Raised(call, e)>>
                       /\ ret' = NoReturn
                       /\ response' = HTTPException(500, str_exc(e))
                       /\ UNCHANGED <<store, clock, posted>>
                 \/ \E stored_at \in {clock, clock + 1}, tick \in {0, 1} :
                       \* the collaborator reads the time, then the handler does
                       LET now == stored_at + tick
                           inserted_id == NextId(store)
                       IN  /\ Len(store) < MaxEntries
                           /\ store' = create_document(store, call, stored_at)
                           /\ clock' = stored_at
                           /\ calls' = <<Returned(call, inserted_id)>>
                           /\ ret' = [kind |-> "dict",
                                      doc |-> AddResult(inserted_id, name,
                                                        message_sanitized, now)]
                           /\ response' = EntryResponse(ret'.doc)
                           /\ posted' =
                                IF response'.status = 200
                                THEN posted \cup {[name |-> response'.body.name,
                                                   message |-> response'.body.message]}
                                ELSE posted

\* POST /guestbook with a JSON body {name, message}
post_guestbook(pname, pmessage) ==
    /\ request' = [method |-> "POST", path |-> "/guestbook",
                   name |-> pname, message |-> pmessage]
    /\ IF GuestbookCreate(pname, pmessage)
       THEN add_guestbook(pname, pmessage)
       ELSE /\ calls' = <<>>
            /\ ret' = NoReturn
            /\ response' = HTTPException(422, "Unprocessable Entity")
            /\ UNCHANGED <<store, clock, posted>>

(***************************************************************************)
(* GET /test                                                                *)
(***************************************************************************)
\* what "from database import db" can do: fail to import, fail otherwise,
\* give None, or give a database handle
ImportOutcomes == {"ImportError", "Exception", "None", "Database"}

CollectionNames(n) == [i \in 1..n |-> <<"c">> \o Decimal(i)]

\* what db.list_collection_names() can do: raise, or return a list of names
Listings ==
    {[ok |-> FALSE, names |-> <<>>, error |-> e] : e \in StorageErrors}
    \cup {[ok |-> TRUE, names |-> CollectionNames(n), error |-> <<>>] :
             n \in 0..MaxCollections}

\* seq[:n]
Take(seq, n) == SubSeq(seq, 1, IF Len(seq) < n THEN Len(seq) ELSE n)

\* the list of names not cut
ShownCollections_All(names) == names

\* collections[:10]
ShownCollections(names) == Take(names, COLLECTIONS_SHOWN)

DatabaseText(text, error) == [text |-> text, error |-> error]

\* the dict test_database returns, for what it observes of the database
\* module and of the environment
TestDatabaseResult(import, has_name, listing, env_url, env_name) ==
    LET response0 ==
            [backend |-> "Running",
             database |-> DatabaseText("Not Available", <<>>),
             database_url |-> "None",
             database_name |-> "None",
             connection_status |-> "Not Connected",
             collections |-> <<>>]
        probed ==
            CASE import = "ImportError" ->
                   [response0 EXCEPT !.database =
                        DatabaseText("Database module not found (run enable-database first)", <<>>)]
              [] import = "Exception" ->
                   [response0 EXCEPT !.database =
                        DatabaseText("Error: ", Take(<<"b", "o", "o", "m">>, 50))]
              [] import = "None" ->
                   [response0 EXCEPT !.database =
                        DatabaseText("Available but not initialized", <<>>)]
              [] import = "Database" ->
                   LET connected ==
                           [response0 EXCEPT
                               !.database = DatabaseText("Available", <<>>),
                               !.database_url = "Configured",
                               !.database_name = IF has_name THEN "db.name" ELSE "Connected",
                               !.connection_status = "Connected"]
                   IN  IF listing.ok
                       THEN [connected EXCEPT
                               !.collections = ShownCollections(listing.names),
                               !.database = DatabaseText("Connected & Working", <<>>)]
                       ELSE [connected EXCEPT
                               !.database = DatabaseText("Connected but Error: ",
                                                Take(str_exc(listing.error), 50))]
    IN  [probed EXCEPT
            !.database_url = IF env_url THEN "Set" ELSE "Not Set",
            !.database_name = IF env_name THEN "Set" ELSE "Not Set"]

test_database(import, has_name, listing, env_url, env_name) ==
    /\ request' = [method |-> "GET", path |-> "/test", import |-> import,
                   listing |-> listing]
    /\ calls' = <<>>
    /\ ret' = [kind |-> "dict"]
    /\ response' = [status |-> 200, kind |-> "status",
                    body |-> TestDatabaseResult(import, has_name, listing, env_url, env_name),
                    detail |-> ""]
    /\ UNCHANGED <<store, clock, posted>>

(***************************************************************************)
(* The service: requests arrive in any order.  GET /test reads nothing of   *)
(* the guestbook, so here it is taken with one listing per import outcome;  *)
(* SpecTest below explores what it observes in full.                        *)
(***************************************************************************)
OneListing == [ok |-> TRUE, names |-> CollectionNames(1), error |-> <<>>]

Next ==
    \/ read_root
    \/ hello
    \/ \E import \in ImportOutcomes :
          test_database(import, TRUE, OneListing, TRUE, FALSE)
    \/ \E limit \in Limits : get_guestbook(TRUE, limit)
    \/ get_guestbook(FALSE, 0)
    \/ \E pname \in Names, pmessage \in Messages : post_guestbook(pname, pmessage)

Spec == Init /\ [][Next]_vars

(***************************************************************************)
(* One POST /guestbook to the freshly started service, over a wide set of   *)
(* request bodies: texts at and over the schema's lengths, the example of   *)
(* the documentation, and every concatenation of up to MaxChunks pieces of  *)
(* links.                                                                   *)
(***************************************************************************)
Chunks ==
    { <<"h", "t", "t", "p", ":", "/", "/">>,
      <<"h", "T", "t", "P", "s", ":", "/", "/">>,
      <<"h", "t", "t", "p", ":", "/">>,
      <<"a">>,
      <<" ">> }

RECURSIVE Concat(_, _)
Concat(pieces, i) == IF i > Len(pieces) THEN <<>> ELSE pieces[i] \o Concat(pieces, i + 1)

ChunkMessages ==
    UNION { {Concat(pieces, 1) : pieces \in [1..n -> Chunks]} : n \in 0..MaxChunks }

PostBodies ==
    ((Names \cup {<<>>, Rep("n", NAME_MAX_LENGTH), Rep("n", NAME_MAX_LENGTH + 1),
                  Rep(" ", NAME_MAX_LENGTH + 1)})
        \X (Messages \cup {<<>>, EXAMPLE_MESSAGE, Rep("m", MESSAGE_MAX_LENGTH + 1),
                           Rep(" ", MESSAGE_MAX_LENGTH + 1)}))
    \cup ({<<" ", "A", "l", "\t">>} \X ChunkMessages)

NextPost ==
    /\ request.method = "NONE"
    /\ \E body \in PostBodies : post_guestbook(body[1], body[2])

SpecPost == Init /\ [][NextPost]_vars

(***************************************************************************)
(* The diagnostic alone, over everything it can observe.                    *)
(***************************************************************************)
NextTest ==
    \E import \in ImportOutcomes, has_name \in BOOLEAN, listing \in Listings,
       env_url \in BOOLEAN, env_name \in BOOLEAN :
       test_database(import, has_name, listing, env_url, env_name)

SpecTest == Init /\ [][NextTest]_vars

(***************************************************************************)
(* Properties.  The notions they use are stated on their own, apart from    *)
(* the definitions of the handlers above.                                   *)
(***************************************************************************)
IsPost == request.method = "POST" /\ request.path = "/guestbook"

IsList == request.method = "GET" /\ request.path = "/guestbook"

Blank(s) == \A i \in 1..Len(s) : s[i] \in WS

WithinLengths == Len(request.name) <= 80 /\ Len(request.message) <= 500

RECURSIVE DropLeading(_)
DropLeading(s) == IF Len(s) > 0 /\ s[1] \in WS THEN DropLeading(Tail(s)) ELSE s

RECURSIVE DropTrailing(_)
DropTrailing(s) ==
    IF Len(s) > 0 /\ s[Len(s)] \in WS THEN DropTrailing(SubSeq(s, 1, Len(s) - 1)) ELSE s

Trimmed(s) == DropTrailing(DropLeading(s))

\* t is "http://" or "https://" in any mix of cases
IsScheme(t) ==
    /\ Len(t) \in {7, 8}
    /\ t[1] \in {"h", "H"} /\ t[2] \in {"t", "T"} /\ t[3] \in {"t", "T"}
    /\ t[4] \in {"p", "P"}
    /\ IF Len(t) = 8
       THEN t[5] \in {"s", "S"} /\ SubSeq(t, 6, 8) = <<":", "/", "/">>
       ELSE SubSeq(t, 5, 7) = <<":", "/", "/">>

\* a raw URL starts at u: a scheme followed by a character that is no whitespace
UrlStart(s, u) ==
    \E k \in {7, 8} :
        /\ u + k <= Len(s)
        /\ IsScheme(SubSeq(s, u, u + k - 1))
        /\ s[u + k] \notin WS

ContainsRawUrl(s) == \E u \in 1..Len(s) : UrlStart(s, u)

\* the word (maximal run of non-whitespace) around position i, and the first
\* place in it where a URL starts, or 0
WordStart(s, i) ==
    CHOOSE a \in 1..i : (\A k \in a..i : s[k] \notin WS) /\ (a = 1 \/ s[a - 1] \in WS)

WordEnd(s, i) ==
    CHOOSE b \in i..Len(s) :
        (\A k \in i..b : s[k] \notin WS) /\ (b = Len(s) \/ s[b + 1] \in WS)

FirstUrlInWord(s, i) ==
    LET starts == {u \in WordStart(s, i)..WordEnd(s, i) : UrlStart(s, u)}
    IN  IF starts = {} THEN 0 ELSE CHOOSE u \in starts : \A v \in starts : u <= v

\* word by word: from the first URL of a word to the word's end, the placeholder
RECURSIVE ExpectedFrom(_, _)
ExpectedFrom(s, i) ==
    IF i > Len(s) THEN <<>>
    ELSE IF s[i] \in WS THEN <<s[i]>> \o ExpectedFrom(s, i + 1)
    ELSE LET f == FirstUrlInWord(s, i)
         IN  IF f = 0 \/ i < f THEN <<s[i]>> \o ExpectedFrom(s, i + 1)
             ELSE IF i = f THEN LINK_REMOVED \o ExpectedFrom(s, i + 1)
             ELSE ExpectedFrom(s, i + 1)

ExpectedSanitized(s) == ExpectedFrom(s, 1)

EXAMPLE_SANITIZED ==
    <<"c", "h", "e", "c", "k", " ", "t", "h", "i", "s", " ", "o", "u", "t", " ",
      "[", "l", "i", "n", "k", " ", "r", "e", "m", "o", "v", "e", "d", "]",
      " ", "a", "n", "d", " ",
      "[", "l", "i", "n", "k", " ", "r", "e", "m", "o", "v", "e", "d", "]">>

StorageReturned == Len(calls) = 1 /\ calls[1].outcome = "returned"

StorageRaised == Len(calls) = 1 /\ calls[1].outcome = "raised"

\* C1: a POST /guestbook within the lengths, with name and message not blank,
\* whose storage call succeeds, answers 200 with the trimmed name and the
\* trimmed message in which every URL is replaced by "[link removed]"; the
\* same name and message are what create_document was given.
C1_PostReturnsTrimmedSanitized ==
    (IsPost /\ WithinLengths /\ ~Blank(request.name) /\ ~Blank(request.message)
        /\ StorageReturned)
    => /\ response.status = 200
       /\ response.kind = "entry"
       /\ response.body.name = Trimmed(request.name)
       /\ response.body.message = ExpectedSanitized(Trimmed(request.message))
       /\ calls[1].call.fn = "create_document"
       /\ calls[1].call.collection = "guestbook"
       /\ calls[1].call.data = [name |-> Trimmed(request.name),
                                message |-> ExpectedSanitized(Trimmed(request.message))]
       /\ (request.message = EXAMPLE_MESSAGE
              => response.body.message = EXAMPLE_SANITIZED)

C1_Witness ==
    /\ IsPost
    /\ request.name = <<" ", "A", "l", "\t">>
    /\ request.message = EXAMPLE_MESSAGE
    /\ response.status = 200
    /\ response.body.name = <<"A", "l">>
    /\ response.body.message = EXAMPLE_SANITIZED

\* C2 as stated: every POST /guestbook whose name or message is blank answers
\* 400, makes no create_document call and leaves the store as it was.
C2_BlankPostAnswers400 ==
    (IsPost /\ (Blank(request.name) \/ Blank(request.message)))
    => /\ response.status = 400
       /\ Len(calls) = 0
       /\ store \in InitialStores

\* C2: every POST /guestbook whose name or message is blank makes no
\* create_document call and leaves the store as it was; it answers 400 when
\* the body is within the schema's lengths, and 422 when it is not.
C2_BlankPostRejected ==
    (IsPost /\ (Blank(request.name) \/ Blank(request.message)))
    => /\ response.status = IF WithinLengths THEN 400 ELSE 422
       /\ Len(calls) = 0
       /\ store \in InitialStores
       /\ posted = {}

C2_Witness ==
    /\ IsPost
    /\ request.name = <<" ", " ", " ">>
    /\ ~Blank(request.message)
    /\ response.status = 400
    /\ Len(calls) = 0

\* C4: no stored message, no message answered by POST and no message given to
\* create_document holds a raw URL: "http://" or "https://", in any case,
\* followed by a character that is no whitespace.
C4_NoRawUrlStored ==
    /\ \A i \in 1..Len(store) : ~ContainsRawUrl(store[i].message)
    /\ (response.kind = "entry" => ~ContainsRawUrl(response.body.message))
    /\ (Len(calls) = 1 /\ calls[1].call.fn = "create_document"
           => ~ContainsRawUrl(calls[1].call.data.message))

\* "http:/http://a" is stored as "http:/[link removed]"
C4_Witness ==
    /\ IsPost
    /\ request.message =
          <<"h", "t", "t", "p", ":", "/", "h", "t", "t", "p", ":", "/", "/", "a">>
    /\ response.status = 200
    /\ store[Len(store)].message = <<"h", "t", "t", "p", ":", "/">> \o LINK_REMOVED

EffectiveLimit == IF request.has_limit THEN request.limit ELSE 50

HasTime(d) == "created_at" \in DOMAIN d

\* C3 as stated: every entry answered by POST /guestbook and by GET /guestbook
\* carries an identifier field, next to name, message and created_at.
C3_EntriesCarryIdentifier ==
    /\ (IsPost /\ response.status = 200)
          => {"_id", "name", "message", "created_at"} \subseteq DOMAIN response.body
    /\ (IsList /\ response.status = 200)
          => \A i \in 1..Len(response.body) :
                {"_id", "name", "message", "created_at"} \subseteq DOMAIN response.body[i]

ListsEntry(p) ==
    \E i \in 1..Len(response.body) :
        response.body[i].name = p.name /\ response.body[i].message = p.message

\* C6 as stated: whatever was created by a successful POST, every later
\* GET /guestbook that answers returns an entry with that name and message.
C6_PostedAlwaysListed ==
    (IsList /\ response.status = 200) => \A p \in posted : ListsEntry(p)

\* C6: whatever was created by a successful POST, every later GET /guestbook
\* that answers 200 with a limit of at least the number of stored entries
\* returns an entry with that name and that sanitized message.
C6_PostedListedWithinLimit ==
    (IsList /\ response.status = 200 /\ EffectiveLimit >= Len(store))
    => \A p \in posted : ListsEntry(p)

C6_Witness ==
    /\ IsList
    /\ response.status = 200
    /\ Cardinality(posted) = 2
    /\ Len(response.body) = 2
    /\ \A p \in posted : ListsEntry(p)

\* a is b up to the order of the elements, the identifier's form aside
SameEntries(a, b) ==
    /\ Len(a) = Len(b)
    /\ \E q \in [1..Len(a) -> 1..Len(a)] :
          /\ \A i, j \in 1..Len(a) : q[i] = q[j] => i = j
          /\ \A i \in 1..Len(a) :
                /\ DOMAIN a[i] = DOMAIN b[q[i]]
                /\ a[i].name = b[q[i]].name
                /\ a[i].message = b[q[i]].message
                /\ HasTime(a[i]) => a[i].created_at = b[q[i]].created_at

\* C7: GET /guestbook passes its limit (50 when left out) and an empty filter
\* to get_documents, returns the entries it was given, none more and none
\* less, hence at most limit entries, and exactly one for limit=1 when more
\* than one entry is stored.
C7_ListHonoursLimit ==
    IsList =>
        /\ Len(calls) = 1
        /\ calls[1].call = [fn |-> "get_documents", collection |-> "guestbook",
                            filter |-> {}, limit |-> EffectiveLimit]
        /\ StorageReturned =>
              /\ ret.kind = "list"
              /\ SameEntries(ret.docs, calls[1].value)
              /\ Len(ret.docs) <= EffectiveLimit
              /\ (EffectiveLimit = 1 /\ Len(store) > 1) => Len(ret.docs) = 1
        /\ response.status = 200 =>
              /\ Len(response.body) = Len(ret.docs)
              /\ Len(response.body) <= EffectiveLimit

C7_Witness ==
    /\ IsList
    /\ request.has_limit
    /\ request.limit = 1
    /\ Len(store) = 2
    /\ response.status = 200
    /\ Len(response.body) = 1

\* C8: GET /test always answers with a status object; connection_status is
\* "Connected" exactly when the import gave a database handle; collections
\* holds at most 10 names.
C8_TestNeverRaises ==
    (request.method = "GET" /\ request.path = "/test")
    => /\ response.status = 200
       /\ response.kind = "status"
       /\ (response.body.connection_status = "Connected") <=> (request.import = "Database")
       /\ response.body.connection_status \in {"Connected", "Not Connected"}
       /\ Len(response.body.collections) <= 10
       /\ \A i \in 1..Len(response.body.collections) :
             response.body.collections[i] = request.listing.names[i]

C8_Witness ==
    /\ request.path = "/test"
    /\ request.import = "Database"
    /\ request.listing.ok
    /\ Len(request.listing.names) = 11
    /\ response.status = 200
    /\ Len(response.body.collections) = 10

\* C9: when create_document or get_documents raises, the request ends with
\* HTTP 500 whose detail is the text of the exception, after that one call.
C9_StorageFailureIs500 ==
    /\ Len(calls) <= 1
    /\ StorageRaised
          => /\ response.status = 500
             /\ response.kind = "error"
             /\ response.detail = calls[1].value.msg
             /\ ret.kind = "none"

C9_Witness ==
    /\ IsPost
    /\ StorageRaised
    /\ calls[1].call.fn = "create_document"
    /\ response.status = 500
    /\ response.detail = <<"d", "o", "w", "n">>

AppendOnlyStep ==
    /\ Len(store') >= Len(store)
    /\ SubSeq(store', 1, Len(store)) = store
    /\ Len(store') <= Len(store) + 1
    /\ Len(store') = Len(store) + 1
          => /\ request'.method = "POST"
             /\ response'.status = 200
             /\ Len(calls') = 1
             /\ calls'[1].call.fn = "create_document"
    /\ (request'.method = "POST" /\ response'.status = 200)
          => Len(store') = Len(store) + 1
    /\ (request'.method = "POST" /\ response'.status = 400) => store' = store

\* C10: every step, of whatever endpoint, leaves the stored entries as they
\* are and adds at most one after them; it adds one exactly when it is a
\* POST /guestbook that answers 200, which makes one create_document call.
C10_AppendOnly == [][AppendOnlyStep]_vars

C10_Witness ==
    /\ IsPost
    /\ response.status = 200
    /\ Len(store) = 2
    /\ store[1].name = <<"o", "l", "d">>

====
